---- MODULE Spec2Model ----
(***************************************************************************)
(* Model of the SBOM graph viewer: the SbomGraph class of                  *)
(* static/js/graph.js and its driver in static/js/main.js.                 *)
(*                                                                         *)
(* Strings that the code builds or splits (node, SBOM and type             *)
(* identifiers) are modelled as the sequence of their '-'-separated        *)
(* segments: "s1" is <<"s1">>, "os-lib" is <<"os", "lib">>.  Joining with  *)
(* '-' is then \o and String.split('-') is the sequence itself.  The empty *)
(* sequence stands for a missing (undefined, falsy) value.                 *)
(***************************************************************************)
EXTENDS Integers, Sequences, FiniteSets, TLC

\* ------------------------------------------------------------------------
\* Program constants
\* ------------------------------------------------------------------------

clusterThreshold == 30

LargeGraphSize == 100

HighDegree == 5

SchemeSize == 10

\* ------------------------------------------------------------------------
\* Bounds of the model
\* ------------------------------------------------------------------------

\* Longest list of hand-picked ("core") nodes put in front of a payload.
MaxCore == 2

\* Longest list of hand-picked links of a payload.
MaxLinks == 1

\* /graph requests that may be in flight at once in a session.
MaxInflight == 1

\* ------------------------------------------------------------------------
\* Values
\* ------------------------------------------------------------------------

Absent == << >>

Truthy(v) == v # Absent

S1 == <<"s1">>

S2 == <<"s2">>

\* An SBOM identifier that contains '-'.
SD == <<"s1", "x">>

LIB == <<"library">>

SOFTWARE == <<"software">>

\* A type tag that contains '-'.
XLIB == <<"x", "library">>

UNKNOWN == <<"unknown">>

\* d3.schemeCategory10
schemeCategory10 ==
    << "#1f77b4", "#ff7f0e", "#2ca02c", "#d62728", "#9467bd",
       "#8c564b", "#e377c2", "#7f7f7f", "#bcbd22", "#17becf" >>

DefaultBlue == "#4285F4"

SharedHighlight == "#FF5500"

NoColor == ""

\* A component record.  hasShared tells a present shared_in (an array, which
\* is truthy even when empty) from a missing one.
Node(id, sbom, type, hasShared, sharedIn) ==
    [ id |-> id, sbom |-> sbom, type |-> type,
      hasShared |-> hasShared, shared_in |-> sharedIn, size |-> 0,
      isCluster |-> FALSE, componentCount |-> 0, clusterType |-> Absent,
      components |-> << >>, isNull |-> FALSE ]

\* A null entry of the nodes array (a malformed payload).
NullNode == [ Node(Absent, Absent, Absent, FALSE, << >>) EXCEPT !.isNull = TRUE ]

\* A link endpoint: a bare identifier (typeof 'string') or an object with
\* an id (a hydrated node reference, of which ty is the node's type).
Str(id) == [ k |-> "str", id |-> id, ty |-> Absent ]

Obj(id, ty) == [ k |-> "obj", id |-> id, ty |-> ty ]

\* typeof e === 'object' ? e?.id : e
EndId(e) == e.id

\* ref = i > 0 says that the link is the very object originalLinks[i].
Link(source, target, sbom, type) ==
    [ source |-> source, target |-> target, sbom |-> sbom, type |-> type,
      sourceSbom |-> Absent, targetSbom |-> Absent, ref |-> 0, isNull |-> FALSE ]

NullLink == [ Link(Str(Absent), Str(Absent), Absent, Absent) EXCEPT !.isNull = TRUE ]

\* ------------------------------------------------------------------------
\* Sequence helpers
\* ------------------------------------------------------------------------

Range(s) == { s[i] : i \in DOMAIN s }

RECURSIVE Flatten(_)
Flatten(ss) == IF ss = << >> THEN << >> ELSE Head(ss) \o Flatten(Tail(ss))

\* F applied to the value of v: v is worked out once, however often F
\* uses it.
With(v, F(_)) == CHOOSE r \in { F(x) : x \in { v } } : TRUE

SeqMap(Op(_), s) == [ i \in 1..Len(s) |-> Op(s[i]) ]

Count(s, Test(_)) == Cardinality({ i \in DOMAIN s : Test(s[i]) })

\* Array.prototype.find: the index of the first match, 0 when none.
FindFirst(s, Test(_)) ==
    With({ i \in DOMAIN s : Test(s[i]) },
         LAMBDA hits : IF hits = {} THEN 0
                       ELSE CHOOSE i \in hits : \A j \in hits : i <= j)

\* The index of the last match, 0 when none (a Map built from the array
\* keeps the last entry of a key).
FindLast(s, Test(_)) ==
    With({ i \in DOMAIN s : Test(s[i]) },
         LAMBDA hits : IF hits = {} THEN 0
                       ELSE CHOOSE i \in hits : \A j \in hits : i >= j)

\* The distinct values of ks in order of first occurrence (the key order
\* of a JavaScript object filled while walking ks).
KeysInOrder(ks) ==
    With({ << FindFirst(ks, LAMBDA k : k = v), v >> : v \in Range(ks) },
         LAMBDA firsts :
             [ n \in 1..Cardinality(firsts) |->
                 (CHOOSE p \in firsts :
                     Cardinality({ q \in firsts : q[1] < p[1] }) = n - 1)[2] ])

NodeIds(ns) == { ns[i].id : i \in DOMAIN ns }

\* ------------------------------------------------------------------------
\* _createClusteredGraph and _createClusterLinks
\* ------------------------------------------------------------------------

\* componentSboms / sharedComponents: identifiers that occur under more
\* than one SBOM identifier.
sharedComponents(oNodes) ==
    { id \in NodeIds(oNodes) :
        /\ Truthy(id)
        /\ Cardinality({ oNodes[i].sbom : i \in
               { j \in DOMAIN oNodes : oNodes[j].id = id /\ Truthy(oNodes[j].sbom) } }) > 1 }

\* The SBOM of the first original node with this identifier; found tells
\* whether there is one.
FirstNodeOf(oNodes, id) ==
    With(FindFirst(oNodes, LAMBDA n : n.id = id),
         LAMBDA i : IF i = 0 THEN [ found |-> FALSE, sbom |-> Absent ]
                    ELSE [ found |-> TRUE, sbom |-> oNodes[i].sbom ])

IsCrossSbomLink(oNodes, l) ==
    /\ Truthy(EndId(l.source))
    /\ Truthy(EndId(l.target))
    /\ With(FirstNodeOf(oNodes, EndId(l.source)), LAMBDA sourceNode :
       With(FirstNodeOf(oNodes, EndId(l.target)), LAMBDA targetNode :
           sourceNode.found /\ targetNode.found /\ sourceNode.sbom # targetNode.sbom))

\* crossSbomComponents: endpoints of links between nodes of two SBOMs.
crossSbomComponents(oNodes, oLinks) ==
    UNION { { EndId(oLinks[i].source), EndId(oLinks[i].target) } :
            i \in { j \in DOMAIN oLinks : IsCrossSbomLink(oNodes, oLinks[j]) } }

linkCount(oLinks, id) ==
    Count(oLinks, LAMBDA l : EndId(l.source) = id \/ EndId(l.target) = id)

\* A variant of IsImportant without the test of the number of links.
IsImportantByOrigin(oLinks, shared, cross, n) ==
    \/ n.id \in shared
    \/ n.id \in cross

\* The test that keeps a node of a clustered SBOM individually visible.
IsImportant(oLinks, shared, cross, n) ==
    \/ n.id \in shared
    \/ n.id \in cross
    \/ linkCount(oLinks, n.id) > HighDegree

TypeOf(n) == IF Truthy(n.type) THEN n.type ELSE UNKNOWN

\* `cluster-${sbomId}-${type}`
ClusterId(sbomId, type) == <<"cluster">> \o sbomId \o type

\* nodes.reduce((sum, node) => sum + (node.size || 0), 0)
SumSizes(members) ==
    Cardinality(UNION { { i } \X (1..members[i].size) : i \in DOMAIN members })

ClusterNode(sbomId, type, members) ==
    [ id |-> ClusterId(sbomId, type), sbom |-> sbomId, type |-> <<"cluster">>,
      hasShared |-> FALSE, shared_in |-> << >>,
      size |-> SumSizes(members),
      isCluster |-> TRUE, componentCount |-> Len(members),
      clusterType |-> type, components |-> SeqMap(LAMBDA n : n.id, members),
      isNull |-> FALSE ]

\* clusterId.split('-')[1]
ClusterSbomId(clusterId) == << clusterId[2] >>

\* The link, if any, that _createClusterLinks makes of one original link.
ClusterLinkOf(oNodes, clusterId, memberIds, importantIds, l) ==
    LET sourceId == EndId(l.source)
        targetId == EndId(l.target)
        clusterSbomId == ClusterSbomId(clusterId)
        mk(s, t, ty, ss, ts) ==
            [ source |-> Str(s), target |-> Str(t), sbom |-> l.sbom, type |-> ty,
              sourceSbom |-> ss, targetSbom |-> ts, ref |-> 0, isNull |-> FALSE ]
    IN  With(FirstNodeOf(oNodes, sourceId), LAMBDA sourceNode :
        With(FirstNodeOf(oNodes, targetId), LAMBDA targetNode :
            IF ~Truthy(sourceId) \/ ~Truthy(targetId) THEN << >>
            ELSE IF sourceId \in memberIds /\ targetId \notin memberIds
            THEN IF targetId \in importantIds
                 THEN << mk(clusterId, targetId, <<"cluster", "to", "node">>,
                            Absent, Absent) >>
                 ELSE IF targetNode.found /\ targetNode.sbom # clusterSbomId
                 THEN << mk(clusterId, targetId, <<"cross", "sbom">>,
                            clusterSbomId, targetNode.sbom) >>
                 ELSE << >>
            ELSE IF targetId \in memberIds /\ sourceId \notin memberIds
            THEN IF sourceId \in importantIds
                 THEN << mk(sourceId, clusterId, <<"node", "to", "cluster">>,
                            Absent, Absent) >>
                 ELSE IF sourceNode.found /\ sourceNode.sbom # clusterSbomId
                 THEN << mk(sourceId, clusterId, <<"cross", "sbom">>,
                            sourceNode.sbom, clusterSbomId) >>
                 ELSE << >>
            ELSE << >>))

createClusterLinks(oNodes, oLinks, clusterId, members, important) ==
    With(NodeIds(members), LAMBDA memberIds :
    With(NodeIds(important), LAMBDA importantIds :
        Flatten(SeqMap(LAMBDA l :
                    ClusterLinkOf(oNodes, clusterId, memberIds, importantIds, l),
                oLinks))))

\* What one SBOM contributes: its nodes and the links of its clusters.
SbomPart(oNodes, oLinks, shared, cross, sbomId) ==
    With(SelectSeq(oNodes, LAMBDA n : n.sbom = sbomId), LAMBDA sbomNodes :
        IF Len(sbomNodes) <= clusterThreshold
        THEN [ nodes |-> sbomNodes, links |-> << >> ]
        ELSE
    With(SelectSeq(sbomNodes, LAMBDA n : IsImportant(oLinks, shared, cross, n)),
         LAMBDA important :
    With(SelectSeq(sbomNodes, LAMBDA n : ~IsImportant(oLinks, shared, cross, n)),
         LAMBDA regular :
    With(KeysInOrder(SeqMap(TypeOf, regular)), LAMBDA types :
    With(SeqMap(LAMBDA t : SelectSeq(regular, LAMBDA n : TypeOf(n) = t), types),
         LAMBDA componentsByType :
        [ nodes |-> important \o
                    [ k \in DOMAIN types |->
                        ClusterNode(sbomId, types[k], componentsByType[k]) ],
          links |-> Flatten([ k \in DOMAIN types |->
                        createClusterLinks(oNodes, oLinks, ClusterId(sbomId, types[k]),
                                           componentsByType[k], important) ]) ])))))

\* The try block of _createClusteredGraph: the clustered nodes and links.
ClusteredGraph(oNodes, oLinks) ==
    With(sharedComponents(oNodes), LAMBDA shared :
    With(crossSbomComponents(oNodes, oLinks), LAMBDA cross :
    With(SeqMap(LAMBDA s : SbomPart(oNodes, oLinks, shared, cross, s),
                KeysInOrder(SeqMap(LAMBDA n : n.sbom,
                    SelectSeq(oNodes, LAMBDA n : Truthy(n.sbom))))),
         LAMBDA parts :
    With(Flatten(SeqMap(LAMBDA p : p.nodes, parts)), LAMBDA ns :
    With({ ns[i].id : i \in { j \in DOMAIN ns : ~ns[j].isCluster } },
         LAMBDA nonClusterNodeIds :
        [ nodes |-> ns,
          links |-> Flatten(SeqMap(LAMBDA p : p.links, parts)) \o
                    SelectSeq(oLinks, LAMBDA l :
                        /\ EndId(l.source) \in nonClusterNodeIds
                        /\ EndId(l.target) \in nonClusterNodeIds) ])))))

\* A null entry makes the try block throw (a property of null is read).
ClusteringThrows(oNodes, oLinks) ==
    \/ \E i \in DOMAIN oNodes : oNodes[i].isNull
    \/ \E i \in DOMAIN oLinks : oLinks[i].isNull

\* _createClusteredGraph with showClusters on: the result of the try
\* block, or the catch block's fall-back to the original arrays.
createClusteredGraph(oNodes, oLinks) ==
    IF ClusteringThrows(oNodes, oLinks)
    THEN [ nodes |-> oNodes, links |-> oLinks ]
    ELSE ClusteredGraph(oNodes, oLinks)

\* ------------------------------------------------------------------------
\* The graph object
\* ------------------------------------------------------------------------

showClusters == TRUE

\* this.selectedNode: the node object d, or null.  current says that the
\* object is one of the objects bound to the rendered elements (updateData
\* replaces every node object by a new one); an element's datum is the
\* selected object when it is equal to d and current holds.
NoSelection == [ d |-> NullNode, current |-> FALSE ]

Selection(d) == [ d |-> d, current |-> TRUE ]

\* Lengths in steps of 0.0001 pixel, opacities in tenths.
Px(n) == n * 10000

baseSize == Px(15)

maxSize == Px(45)

baseClusterSize == Px(25)

maxClusterSize == Px(60)

Min(a, b) == IF a < b THEN a ELSE b

Max(a, b) == IF a > b THEN a ELSE b

\* The largest r in lo..hi with r * r <= n, by bisection.
RECURSIVE Sqrt(_, _, _)
Sqrt(n, lo, hi) ==
    IF lo >= hi THEN lo
    ELSE With((lo + hi + 1) \div 2, LAMBDA mid :
             IF mid * mid <= n THEN Sqrt(n, mid, hi) ELSE Sqrt(n, lo, mid - 1))

\* The four sizing modes of the page's selector.
SizeModes == { "fixed", "connections", "file-size", "shared" }

\* A variant of getNodeSize that counts the links of a node in every mode.
getNodeSizeByLinks(g, d) ==
    Max(baseSize,
        Min(baseSize + Px(2) * Cardinality({ i \in DOMAIN g.links :
                \/ g.links[i].source.k = "obj" /\ g.links[i].source.id = d.id
                \/ g.links[i].target.k = "obj" /\ g.links[i].target.id = d.id }),
            maxSize))

\* getNodeSize.  A bare identifier has no id property, so only hydrated
\* endpoints count as connections.  Math.sqrt is taken down to the step.
getNodeSize(g, d) ==
    IF d.isCluster
    THEN Min(baseClusterSize
               + Sqrt(4 * Px(1) * Px(1) * (IF d.componentCount = 0 THEN 1
                                           ELSE d.componentCount),
                      0, maxClusterSize),
             maxClusterSize)
    ELSE IF g.nodeSizeBy = "connections"
    THEN Max(baseSize,
             Min(baseSize + Px(2) * Cardinality({ i \in DOMAIN g.links :
                     \/ g.links[i].source.k = "obj" /\ g.links[i].source.id = d.id
                     \/ g.links[i].target.k = "obj" /\ g.links[i].target.id = d.id }),
                 maxSize))
    ELSE IF g.nodeSizeBy = "file-size"
    THEN IF d.size = 0 THEN baseSize
         ELSE Max(baseSize, Min(baseSize + d.size, maxSize))
    ELSE IF g.nodeSizeBy = "shared"
    THEN IF ~d.hasShared THEN baseSize
         ELSE Max(baseSize, Min(baseSize + Px(5) * Len(d.shared_in), maxSize))
    ELSE baseSize

\* The stroke-opacity of the rule .link of the style sheet.
CssLinkOpacity == 6

\* calculateLinkOpacity.  An endpoint that is a bare identifier has no id.
calculateLinkOpacity(g, d) ==
    IF g.selectedNode.d.isNull THEN 6
    ELSE IF \/ d.source.k = "obj" /\ d.source.id = g.selectedNode.d.id
            \/ d.target.k = "obj" /\ d.target.id = g.selectedNode.d.id
         THEN 8 ELSE 2

\* Byte counts are written in base 1024, lowest digit first, so that counts
\* beyond 2^31 can be told apart: << 512, 1 >> is 1536.
k1024 == 1024

sizes == << "Bytes", "KB", "MB", "GB" >>

\* The number of digits up to the highest one that is not 0.
Digits(bytes) ==
    With({ i \in DOMAIN bytes : bytes[i] # 0 }, LAMBDA nz :
        IF nz = {} THEN 0 ELSE CHOOSE i \in nz : \A j \in nz : j <= i)

\* The text of a size: a number in hundredths and a unit.
Text(hundredths, unit) == [ hundredths |-> hundredths, unit |-> unit ]

NoText == Text(0, "")

\* _formatFileSize.  i = floor(log(bytes) / log(1024)) is one less than the
\* number of digits; sizes[i] is undefined beyond the array; toFixed(2)
\* rounds bytes / 1024^i, here from its two highest digits.
formatFileSize(bytes) ==
    With(Digits(bytes), LAMBDA n :
        IF n = 0 THEN Text(0, "Bytes")
        ELSE Text((200 * (bytes[n] * k1024 + (IF n > 1 THEN bytes[n - 1] ELSE 0)) + k1024)
                      \div (2 * k1024),
                  IF n <= Len(sizes) THEN sizes[n] ELSE "undefined"))

\* The levels of the simulation's alpha: AlphaMax is 1, AlphaDrag the
\* target 0.3 of a drag, 0 anything below alphaMin.
AlphaMax == 3

AlphaDrag == 2

\* d3.forceSimulation(): the timer runs from creation.  current says that
\* the nodes of the simulation are the working nodes: those have the
\* coordinates x and y that simulation.nodes() gives.
NewSimulation ==
    [ alpha |-> AlphaMax, alphaTarget |-> 0, running |-> TRUE, current |-> TRUE ]

\* simulation.nodes(this.nodes) ... simulation.alpha(1).restart()
Restarted(sim) == [ sim EXCEPT !.alpha = AlphaMax, !.running = TRUE, !.current = TRUE ]

\* One tick of the simulation's timer: alpha moves a level towards
\* alphaTarget, and the timer stops when alpha is below alphaMin.
Ticked(sim) ==
    With(IF sim.alpha > sim.alphaTarget THEN sim.alpha - 1
         ELSE IF sim.alpha < sim.alphaTarget THEN sim.alpha + 1 ELSE sim.alpha,
         LAMBDA a : [ sim EXCEPT !.alpha = a, !.running = (a > 0) ])

\* The drag behaviour of the node elements, d3.drag(): behaviour names the
\* one the last update() made, and a gesture in progress keeps the
\* identifier of its node, whether that object still is a working node, and
\* the behaviour it began in.
NewDrag == [ behaviour |-> 0, gestures |-> << >> ]

\* The gestures in progress that began in behaviour b: what d3-drag counts
\* as event.active.
Active(gestures, b) ==
    Cardinality({ k \in DOMAIN gestures : gestures[k].behaviour = b })

\* A behaviour that no gesture in progress began in.
FreshBehaviour(gestures) ==
    CHOOSE b \in 0..Cardinality(DOMAIN gestures) :
        /\ \A k \in DOMAIN gestures : gestures[k].behaviour # b
        /\ \A c \in 0..(b - 1) : \E k \in DOMAIN gestures : gestures[k].behaviour = c

\* The gestures whose nodes, the ones named in ids, stop being working
\* nodes.
Outdated(gestures, ids) ==
    [ k \in DOMAIN gestures |->
        IF gestures[k].id \in ids THEN [ gestures[k] EXCEPT !.current = FALSE ]
        ELSE gestures[k] ]

IdsOf(ns) == { ns[i].id : i \in DOMAIN ns }

\* The fields of a freshly constructed SbomGraph.  bound says that
\* nodeElements/linkElements hold a selection (they are null before the
\* first render); attached says that the selection's elements are still in
\* the document.
NewGraph ==
    [ nodes |-> << >>, links |-> << >>,
      originalNodes |-> << >>, originalLinks |-> << >>,
      sbomColors |-> << >>, visibleSboms |-> {}, highlightCommon |-> TRUE,
      nodeElements |-> << >>, linkElements |-> << >>,
      bound |-> FALSE, attached |-> FALSE,
      stats |-> [ nodes |-> 0, links |-> 0, sboms |-> 0 ],
      warned |-> 0, clusteredView |-> FALSE,
      nodeSizeBy |-> "fixed", selectedNode |-> NoSelection,
      simulation |-> NewSimulation,
      pinned |-> {}, drag |-> NewDrag, expandButton |-> NullNode ]

\* _getNodeColor
getNodeColor(g, d) ==
    IF d.hasShared /\ Len(d.shared_in) > 1
    THEN IF g.highlightCommon THEN SharedHighlight
         ELSE IF d.shared_in[1] \in DOMAIN g.sbomColors
              THEN g.sbomColors[d.shared_in[1]] ELSE DefaultBlue
    ELSE IF d.sbom \in DOMAIN g.sbomColors THEN g.sbomColors[d.sbom]
         ELSE DefaultBlue

\* The display test of filterVisibleSboms for a node.
NodeShown(visible, d) ==
    LET showAll == visible = {}
    IN  IF d.hasShared
        THEN \E i \in DOMAIN d.shared_in : showAll \/ d.shared_in[i] \in visible
        ELSE showAll \/ d.sbom \in visible

\* The display test of filterVisibleSboms for a link.
LinkShown(visible, d) == visible = {} \/ d.sbom \in visible

filterVisibleSboms(g) ==
    IF ~g.bound THEN g
    ELSE [ g EXCEPT
             !.nodeElements = [ i \in DOMAIN g.nodeElements |->
                 [ g.nodeElements[i] EXCEPT
                     !.display = NodeShown(g.visibleSboms, g.nodeElements[i].d) ] ],
             !.linkElements = [ i \in DOMAIN g.linkElements |->
                 [ g.linkElements[i] EXCEPT
                     !.display = LinkShown(g.visibleSboms, g.linkElements[i].d) ] ] ]

\* _selectNode: a click on the element whose datum is d.
selectNode(graph, d) ==
    With([ graph EXCEPT
             !.selectedNode = IF @ = Selection(d) THEN NoSelection ELSE Selection(d),
             !.expandButton = IF graph.selectedNode # Selection(d) /\ d.isCluster
                              THEN d ELSE NullNode ],
         LAMBDA g :
        IF ~g.bound THEN g
        ELSE [ g EXCEPT
                 !.nodeElements = [ i \in DOMAIN g.nodeElements |->
                     [ g.nodeElements[i] EXCEPT
                         !.selected = (g.selectedNode = Selection(g.nodeElements[i].d)) ] ],
                 !.linkElements = [ i \in DOMAIN g.linkElements |->
                     [ g.linkElements[i] EXCEPT
                         !.opacity = calculateLinkOpacity(g, g.linkElements[i].d) ] ] ])

\* The SBOM test that filterByType makes for a node.
SbomVisible(visible, d) ==
    \/ visible = {}
    \/ IF d.hasShared THEN \E i \in DOMAIN d.shared_in : d.shared_in[i] \in visible
       ELSE d.sbom \in visible

\* filterByType
filterByType(g, showSoftware) ==
    IF ~g.bound THEN g
    ELSE [ g EXCEPT
             !.nodeElements = [ i \in DOMAIN g.nodeElements |->
                 [ g.nodeElements[i] EXCEPT !.display =
                     /\ SbomVisible(g.visibleSboms, g.nodeElements[i].d)
                     /\ showSoftware \/ g.nodeElements[i].d.type # SOFTWARE ] ],
             !.linkElements = [ i \in DOMAIN g.linkElements |->
                 [ g.linkElements[i] EXCEPT !.display =
                     /\ LinkShown(g.visibleSboms, g.linkElements[i].d)
                     /\ showSoftware \/ g.linkElements[i].d.source.ty # SOFTWARE
                     /\ showSoftware \/ g.linkElements[i].d.target.ty # SOFTWARE ] ] ]

\* A variant of EndpointResolves that lets every endpoint pass: update()
\* without its sanitizing filter.
EndpointPasses(nodeIds, e) == TRUE

\* One half of the sanitizing filter of update(): the endpoint, a node
\* reference or a bare identifier, names a working node.
EndpointResolves(nodeIds, e) == e.id \in nodeIds

SanitizeLinks(ns, ls) ==
    With(NodeIds(ns), LAMBDA nodeIds :
        SelectSeq(SelectSeq(ls, LAMBDA l : EndpointResolves(nodeIds, l.source)),
                  LAMBDA l : EndpointResolves(nodeIds, l.target)))

\* forceLink's initialisation: an endpoint that is not yet an object is
\* replaced by the node of that identifier, the last one when several
\* nodes carry it.
HydrateEnd(ns, e) ==
    IF e.k = "obj" THEN e
    ELSE With(FindLast(ns, LAMBDA n : n.id = e.id),
              LAMBDA i : Obj(ns[i].id, ns[i].type))

HydrateLink(ns, l) ==
    [ l EXCEPT !.source = HydrateEnd(ns, l.source), !.target = HydrateEnd(ns, l.target) ]

\* update() reads a property of null when a null entry is present.
UpdateThrows(ns, ls) ==
    \/ \E i \in DOMAIN ns : ns[i].isNull
    \/ \E i \in DOMAIN ls : ls[i].isNull

\* The working links that are the object originalLinks[i] are seen through
\* originalLinks too.
SameObjects(oLinks, ls) ==
    [ i \in DOMAIN oLinks |->
        With({ j \in DOMAIN ls : ls[j].ref = i },
             LAMBDA same : IF same = {} THEN oLinks[i]
                           ELSE ls[CHOOSE j \in same : TRUE] ) ]

\* update(): clear the document, then (unless there is nothing to render)
\* sanitize the links, bind the elements, draw, filter, hand nodes and links
\* to the simulation.  Drawing the hexagon of a cluster node throws, which
\* ends update() in its catch block before the filter and the simulation.
update(graph) ==
    With(graph, LAMBDA g :
        IF Len(g.nodes) = 0 \/ UpdateThrows(g.nodes, g.links)
        THEN [ g EXCEPT !.attached = FALSE ]
        ELSE
    With(\E i \in DOMAIN g.nodes : g.nodes[i].isCluster, LAMBDA aborts :
    With(IF aborts THEN SanitizeLinks(g.nodes, g.links)
         ELSE SeqMap(LAMBDA l : HydrateLink(g.nodes, l),
                     SanitizeLinks(g.nodes, g.links)),
         LAMBDA ls :
    With([ g EXCEPT
             !.links = ls,
             !.originalLinks = SameObjects(g.originalLinks, ls),
             !.linkElements = SeqMap(LAMBDA l :
                 [ d |-> l, display |-> TRUE, opacity |-> CssLinkOpacity ], ls),
             !.nodeElements = SeqMap(LAMBDA n :
                 [ d |-> n, display |-> TRUE,
                   fill |-> IF n.isCluster THEN NoColor ELSE getNodeColor(g, n),
                   r |-> IF n.isCluster THEN 0
                         ELSE getNodeSize([ g EXCEPT
                                  !.links = SanitizeLinks(g.nodes, g.links) ], n),
                   selected |-> FALSE ],
                 g.nodes),
             !.drag = [ @ EXCEPT !.behaviour = FreshBehaviour(g.drag.gestures) ],
             !.bound = TRUE, !.attached = TRUE ],
         LAMBDA drawn :
             IF aborts THEN drawn
             ELSE [ filterVisibleSboms(drawn) EXCEPT !.simulation = Restarted(@) ]))))

\* A toggle that redraws the graph instead of filtering the drawn elements.
toggleSbomVisibilityByUpdate(g, sbomId, visible) ==
    update([ g EXCEPT !.visibleSboms = IF visible THEN @ \cup {sbomId} ELSE @ \ {sbomId} ])

\* toggleSbomVisibility: add or delete the identifier, then filter what is
\* drawn.
toggleSbomVisibility(g, sbomId, visible) ==
    filterVisibleSboms(
        [ g EXCEPT !.visibleSboms = IF visible THEN @ \cup {sbomId} ELSE @ \ {sbomId} ])

\* ------------------------------------------------------------------------
\* updateData
\* ------------------------------------------------------------------------

\* A payload of /graph.  hasSboms tells a present sboms list from a missing
\* one.
Payload(ns, ls, hasSboms, sboms) ==
    [ nodes |-> ns, links |-> ls, hasSboms |-> hasSboms, sboms |-> sboms ]

\* data.sboms.forEach((sbom, index) => ...): an SBOM without a colour gets
\* the scheme colour of its position in the list.
RECURSIVE AssignColors(_, _, _)
AssignColors(colors, sboms, i) ==
    IF i > Len(sboms) THEN colors
    ELSE AssignColors(
             IF sboms[i] \in DOMAIN colors THEN colors
             ELSE colors @@ (sboms[i] :> schemeCategory10[((i - 1) % SchemeSize) + 1]),
             sboms, i + 1)

\* JSON.parse(JSON.stringify(links)): copies, no longer the original objects.
CloneLinks(ls) == [ i \in DOMAIN ls |-> [ ls[i] EXCEPT !.ref = 0 ] ]

\* The arrays as stored: entry i of originalLinks is the object i.
StoreLinks(ls) == [ i \in DOMAIN ls |-> IF ls[i].isNull THEN ls[i] ELSE [ ls[i] EXCEPT !.ref = i ] ]

\* this.nodes.find(n => n.id === link.source): only a bare identifier can
\* be equal to a node's id.
FindNode(ns, e) ==
    IF e.k = "str" THEN FindFirst(ns, LAMBDA n : ~n.isNull /\ n.id = e.id) ELSE 0

\* find() reads n.id of a null entry that lies before the first match.
FindThrows(ns, e) ==
    With(FindNode(ns, e), LAMBDA found :
        \E i \in DOMAIN ns : ns[i].isNull /\ (found = 0 \/ i < found))

\* The forEach body of the unclustered branch fails on this link.
ResolveThrows(ns, l) ==
    l.isNull \/ FindThrows(ns, l.source) \/ FindThrows(ns, l.target)

LinkIsResolved(ns, l) == FindNode(ns, l.source) # 0 /\ FindNode(ns, l.target) # 0

\* The forEach body of the unclustered branch: both endpoints become node
\* references when both are found, the link is left alone otherwise.
ResolveLink(ns, l) ==
    With(FindNode(ns, l.source), LAMBDA s :
    With(FindNode(ns, l.target), LAMBDA t :
        IF s # 0 /\ t # 0
        THEN [ l EXCEPT !.source = Obj(ns[s].id, ns[s].type),
                        !.target = Obj(ns[t].id, ns[t].type) ]
        ELSE l))

\* The filter after both branches: a link stays when both endpoints are
\* non-null objects.
HasObjectEnds(l) == l.source.k = "obj" /\ l.target.k = "obj"

\* The unclustered branch of updateData.  thrown: the forEach failed at
\* some link; the links before it are processed, the others are not.
LoadPlain(ns, ls) ==
    With({ i \in DOMAIN ls : ResolveThrows(ns, ls[i]) }, LAMBDA bad :
    With(IF bad = {} THEN Len(ls) + 1 ELSE CHOOSE i \in bad : \A j \in bad : i <= j,
         LAMBDA stop :
        [ nodes |-> ns,
          links |-> [ i \in DOMAIN ls |->
                        IF i < stop THEN ResolveLink(ns, ls[i]) ELSE ls[i] ],
          thrown |-> bad # {},
          warned |-> Cardinality({ i \in DOMAIN ls :
                                     i < stop /\ ~LinkIsResolved(ns, ls[i]) }) ]))

\* The branch of updateData that a payload takes.
TakesClusterBranch(data) == showClusters /\ Len(data.nodes) > LargeGraphSize

updateData(graph, data) ==
    With([ graph EXCEPT
             !.originalNodes = data.nodes,
             !.originalLinks = StoreLinks(data.links),
             !.sbomColors = IF data.hasSboms /\ Len(data.sboms) > 0
                            THEN AssignColors(@, data.sboms, 1) ELSE @,
             !.warned = 0,
             !.clusteredView = TakesClusterBranch(data),
             !.selectedNode = IF @.d.isNull THEN @ ELSE [ @ EXCEPT !.current = FALSE ],
             !.simulation = [ @ EXCEPT !.current = FALSE ],
             !.pinned = {},
             !.drag = [ @ EXCEPT !.gestures = Outdated(graph.drag.gestures,
                                                       IdsOf(graph.nodes)) ] ],
         LAMBDA g :
    With([ g EXCEPT !.stats = [ nodes |-> Len(data.nodes), links |-> Len(data.links),
                                sboms |-> Cardinality(DOMAIN g.sbomColors) ] ],
         LAMBDA stored :
    With(IF TakesClusterBranch(data)
         THEN createClusteredGraph(stored.originalNodes, stored.originalLinks)
              @@ [ thrown |-> FALSE, warned |-> 0 ]
         ELSE LoadPlain(data.nodes, CloneLinks(data.links)),
         LAMBDA loaded :
        IF loaded.thrown \/ \E i \in DOMAIN loaded.links : loaded.links[i].isNull
        THEN [ stored EXCEPT !.nodes = loaded.nodes, !.links = loaded.links,
                             !.warned = loaded.warned ]
        ELSE update([ stored EXCEPT
                        !.nodes = loaded.nodes,
                        !.links = SelectSeq(loaded.links, HasObjectEnds),
                        !.warned = loaded.warned ]))))

\* ------------------------------------------------------------------------
\* _expandCluster
\* ------------------------------------------------------------------------

\* clusterNode.components.includes(link.source): true of a bare identifier
\* only.
IncludesEnd(components, e) == e.k = "str" /\ e.id \in Range(components)

\* link.source !== clusterNode.id && link.target !== clusterNode.id
AvoidsCluster(c, l) ==
    /\ ~(l.source.k = "str" /\ l.source.id = c.id)
    /\ ~(l.target.k = "str" /\ l.target.id = c.id)

\* The original links that _expandCluster re-attaches between a member and
\* a node of the working set.
ExternalLinks(g, c) ==
    SelectSeq(g.originalLinks, LAMBDA l :
        ~l.isNull /\
        \/ /\ IncludesEnd(c.components, l.source)
           /\ ~IncludesEnd(c.components, l.target)
           /\ FindNode(g.nodes, l.target) # 0
        \/ /\ IncludesEnd(c.components, l.target)
           /\ ~IncludesEnd(c.components, l.source)
           /\ FindNode(g.nodes, l.source) # 0)

ExpandedNodes(g, c) ==
    SelectSeq(g.originalNodes, LAMBDA n : n.id \in Range(c.components))

expandCluster(graph, c) ==
    With(graph, LAMBDA g :
        IF ~c.isCluster THEN g
        ELSE update([ g EXCEPT
                 !.nodes = SelectSeq(g.nodes, LAMBDA n : n.id # c.id)
                           \o ExpandedNodes(g, c),
                 !.simulation = [ @ EXCEPT !.current = FALSE ],
                 !.pinned = @ \ { c.id },
                 !.selectedNode = IF @.d = c THEN [ @ EXCEPT !.current = FALSE ] ELSE @,
                 !.drag = [ @ EXCEPT !.gestures = Outdated(g.drag.gestures, { c.id }) ],
                 !.links = SelectSeq(g.links, LAMBDA l : AvoidsCluster(c, l))
                           \o ExternalLinks(g, c)
                           \o SelectSeq(g.originalLinks, LAMBDA l :
                                  /\ IncludesEnd(c.components, l.source)
                                  /\ IncludesEnd(c.components, l.target)) ]))

\* ------------------------------------------------------------------------
\* Payloads
\* ------------------------------------------------------------------------

\* All sequences over S of length at most n.
SeqsUpTo(S, n) == UNION { [ 1..k -> S ] : k \in 0..n }

\* n components named prefix1 .. prefixn of one SBOM, their types taken in
\* turn from types.
Fillers(prefix, n, sbom, types) ==
    [ i \in 1..n |->
        Node(<< prefix \o ToString(i) >>, sbom, types[((i - 1) % Len(types)) + 1],
             TRUE, << sbom >>) ]

NodeA == Node(<<"a">>, S1, LIB, FALSE, << >>)

NodeB == Node(<<"b">>, S1, LIB, FALSE, << >>)

\* A component of the second SBOM that the first one contains too.
NodeC == Node(<<"c">>, S2, Absent, TRUE, << S1, S2 >>)

\* The identifier of NodeA under the second SBOM.
NodeA2 == Node(<<"a">>, S2, SOFTWARE, TRUE, << S1, S2 >>)

\* A component without an SBOM.
NodeX == Node(<<"x">>, Absent, LIB, FALSE, << >>)

\* A component whose identifier reads like a cluster's.
NodeK == Node(<<"cluster", "s1", "library">>, S2, LIB, TRUE, << S2 >>)

\* A component of type 'software' in the SBOM whose identifier has a '-'.
NodeR == Node(<<"r0">>, SD, SOFTWARE, TRUE, << SD >>)

\* A component whose shared_in is present and empty.
NodeE(sbom) == Node(<<"e">>, sbom, LIB, TRUE, << >>)

StrLink(s, t) == Link(Str(s), Str(t), S1, <<"depends">>)

ObjLink(s, t) == Link(Obj(s, Absent), Obj(t, Absent), S1, <<"depends">>)

\* The payloads of a session: what the server sends for the SBOMs it
\* holds, in upload order, with or without the sboms list.
NodesOfSbom(sbom, both) ==
    IF sbom = S1 THEN << NodeA, NodeB >>
    ELSE << [ NodeC EXCEPT !.shared_in = IF both THEN << S1, S2 >> ELSE << S2 >> ] >>

SessionSbomLists == { << S1 >>, << S2 >>, << S1, S2 >>, << S2, S1 >> }

SessionLinks ==
    { << >>,
      << StrLink(<<"a">>, <<"c">>) >>,
      << StrLink(<<"a">>, <<"c">>), StrLink(<<"b">>, <<"c">>) >>,
      << StrLink(<<"a">>, <<"zz">>) >> }

\* What a payload may carry besides: nothing, or the component NodeE.
SessionExtras(sbom) == { << >>, << NodeE(sbom) >> }

SessionPayloads ==
    UNION { { Payload(Flatten(SeqMap(LAMBDA sb : NodesOfSbom(sb, Len(sboms) > 1), sboms))
                          \o extra,
                      ls, hasSboms, IF hasSboms THEN sboms ELSE << >>) :
                ls \in SessionLinks, hasSboms \in BOOLEAN,
                extra \in SessionExtras(sboms[1]) } :
            sboms \in SessionSbomLists }
    \cup { Payload(<< >>, << >>, TRUE, << >>) }

\* The payloads of the clustering runs: a few hand-picked nodes in front of
\* runs of plain components of up to three SBOMs.  A shape gives the length
\* of each run and the types of the first.
ScenarioCount == 50

Shapes ==
    { [ n1 |-> ScenarioCount, t1 |-> << LIB >>, n2 |-> 0, n3 |-> 0 ],
      [ n1 |-> clusterThreshold, t1 |-> << LIB >>, n2 |-> 0, n3 |-> 0 ],
      [ n1 |-> LargeGraphSize - clusterThreshold + 1, t1 |-> << LIB, Absent >>,
        n2 |-> clusterThreshold - 1, n3 |-> 0 ],
      [ n1 |-> clusterThreshold + 1, t1 |-> << XLIB >>,
        n2 |-> 0, n3 |-> LargeGraphSize - clusterThreshold - 1 ],
      [ n1 |-> 0, t1 |-> << LIB >>,
        n2 |-> clusterThreshold - 1, n3 |-> LargeGraphSize - clusterThreshold + 1 ] }

ShapeNodes(sh) ==
    Fillers("p", sh.n1, S1, sh.t1) \o Fillers("q", sh.n2, S2, << SOFTWARE >>)
    \o Fillers("r", sh.n3, SD, << LIB >>)

CoreNodes == { NodeA, NodeA2, NodeC, NodeX, NodeK, NodeR }

CoreLinks ==
    { StrLink(<<"p1">>, <<"p3">>), StrLink(<<"p1">>, <<"a">>),
      StrLink(<<"a">>, <<"p2">>), StrLink(<<"p1">>, <<"q1">>),
      StrLink(<<"a">>, <<"c">>), StrLink(<<"a">>, <<"zz">>),
      ObjLink(<<"a">>, <<"zz">>), ObjLink(<<"a">>, <<"c">>),
      StrLink(<<"r1">>, <<"r0">>) }

\* Links that give p1 more than HighDegree links.
HubLinks ==
    [ i \in 1..(HighDegree + 1) |-> StrLink(<<"p1">>, << "p" \o ToString(i + 1) >>) ]

ClusterSboms == << S1, S2, SD >>

ClusterPayloads ==
    { Payload(core \o ShapeNodes(sh), ls, TRUE, ClusterSboms) :
        core \in SeqsUpTo(CoreNodes, MaxCore), sh \in Shapes,
        ls \in SeqsUpTo(CoreLinks, MaxLinks) \cup { HubLinks } }

\* Payloads with a null entry among the nodes or the links, large enough
\* for the clustered branch.
NullEntries ==
    { [ ns |-> << NullNode >>, ls |-> << >> ],
      [ ns |-> << >>, ls |-> << NullLink >> ],
      [ ns |-> << NullNode >>, ls |-> << NullLink >> ] }

MalformedPayloads ==
    { Payload(core \o bad.ns \o Fillers("p", LargeGraphSize, S1, << LIB >>),
              ls \o bad.ls, TRUE, ClusterSboms) :
        core \in SeqsUpTo(CoreNodes, MaxCore), bad \in NullEntries,
        ls \in SeqsUpTo(CoreLinks, MaxLinks) }

\* ------------------------------------------------------------------------
\* State
\* ------------------------------------------------------------------------

VARIABLES
    nodes, links, originalNodes, originalLinks,   \* the graph's arrays
    sbomColors, visibleSboms, highlightCommon,    \* the graph's settings
    nodeElements, linkElements, bound, attached,  \* the rendered selections
    stats, warned, clusteredView,                 \* what updateData reported
    nodeSizeBy, selectedNode,                     \* the graph's view settings
    simulation,                                   \* the force simulation
    pinned,           \* the identifiers of the working nodes with fx and fy set
    drag,             \* the drag behaviour and its gestures in progress
    expandButton,     \* the cluster node of the details panel's button, if any
    checkboxes,       \* the SBOM list of the page: id -> checked
    graphRequests,    \* /graph requests in flight
    fetches,          \* /graph requests issued so far
    graphError,       \* the error banner is shown
    seenSboms,        \* history: the SBOM identifiers met, in order
    lastOp,           \* history: the operation that ran last
    lastCluster,      \* history: the node last given to _expandCluster
    softwareFilter,   \* history: the last filterByType call ("never" before it)
    formatted,        \* the byte count last formatted for display, and its text
    held,             \* the server: the SBOMs it holds, in upload order
    pending,          \* the requests in flight that the server has answered
    loading,          \* the loading indicator is shown, the upload button disabled
    latest            \* history: what the /graph request issued last was answered

vars ==
    << nodes, links, originalNodes, originalLinks, sbomColors, visibleSboms,
       highlightCommon, nodeElements, linkElements, bound, attached, stats,
       warned, clusteredView, nodeSizeBy, selectedNode, simulation, pinned, drag, expandButton,
       checkboxes, graphRequests, fetches, graphError,
       seenSboms, lastOp, lastCluster, softwareFilter, formatted,
       held, pending, loading, latest >>

\* The graph object of the current state.
G ==
    [ nodes |-> nodes, links |-> links,
      originalNodes |-> originalNodes, originalLinks |-> originalLinks,
      sbomColors |-> sbomColors, visibleSboms |-> visibleSboms,
      highlightCommon |-> highlightCommon,
      nodeElements |-> nodeElements, linkElements |-> linkElements,
      bound |-> bound, attached |-> attached,
      stats |-> stats, warned |-> warned, clusteredView |-> clusteredView,
      nodeSizeBy |-> nodeSizeBy, selectedNode |-> selectedNode,
      simulation |-> simulation, pinned |-> pinned, drag |-> drag,
      expandButton |-> expandButton ]

\* The graph object of the next state is g.
Becomes(g) ==
    /\ nodes' = g.nodes
    /\ links' = g.links
    /\ originalNodes' = g.originalNodes
    /\ originalLinks' = g.originalLinks
    /\ sbomColors' = g.sbomColors
    /\ visibleSboms' = g.visibleSboms
    /\ highlightCommon' = g.highlightCommon
    /\ nodeElements' = g.nodeElements
    /\ linkElements' = g.linkElements
    /\ bound' = g.bound
    /\ attached' = g.attached
    /\ stats' = g.stats
    /\ warned' = g.warned
    /\ clusteredView' = g.clusteredView
    /\ nodeSizeBy' = g.nodeSizeBy
    /\ selectedNode' = g.selectedNode
    /\ simulation' = g.simulation
    /\ pinned' = g.pinned
    /\ drag' = g.drag
    /\ expandButton' = g.expandButton

\* More requests than this are not issued in a session.
MaxFetches == 2

\* A request in flight as the server answered it: what it asked for, the
\* SBOM it named, and the SBOMs the server held when it answered.
Request(kind, sbom, holding) == [ kind |-> kind, sbom |-> sbom, held |-> holding ]

\* The page after DOMContentLoaded: a new graph, an empty SBOM list, the
\* first /graph request on its way.
Init ==
    /\ nodes = NewGraph.nodes
    /\ links = NewGraph.links
    /\ originalNodes = NewGraph.originalNodes
    /\ originalLinks = NewGraph.originalLinks
    /\ sbomColors = NewGraph.sbomColors
    /\ visibleSboms = NewGraph.visibleSboms
    /\ highlightCommon = NewGraph.highlightCommon
    /\ nodeElements = NewGraph.nodeElements
    /\ linkElements = NewGraph.linkElements
    /\ bound = NewGraph.bound
    /\ attached = NewGraph.attached
    /\ stats = NewGraph.stats
    /\ warned = NewGraph.warned
    /\ clusteredView = NewGraph.clusteredView
    /\ nodeSizeBy = NewGraph.nodeSizeBy
    /\ selectedNode = NewGraph.selectedNode
    /\ simulation = NewGraph.simulation
    /\ pinned = NewGraph.pinned
    /\ drag = NewGraph.drag
    /\ expandButton = NewGraph.expandButton
    /\ checkboxes = << >>
    /\ graphRequests = 1
    /\ fetches = 1
    /\ graphError = FALSE
    /\ seenSboms = << >>
    /\ lastOp = "init"
    /\ lastCluster = NullNode
    /\ softwareFilter = "never"
    /\ formatted = [ bytes |-> << >>, text |-> NoText ]
    /\ held = << >>
    /\ pending = << Request("sboms", Absent, << >>), Request("graph", Absent, << >>) >>
    /\ loading = TRUE
    /\ latest = << >>

\* ------------------------------------------------------------------------
\* Operations
\* ------------------------------------------------------------------------

\* What the page keeps besides the graph and its requests.
viewVars == << softwareFilter, formatted >>

\* The server and the requests.  Only the specification of the page's
\* requests follows them; the others let any payload arrive.
serverVars == << held, pending, loading, latest >>

uiVars == << viewVars, serverVars >>

\* The SBOM identifiers a payload brings, in order: those of its sboms
\* list, or of its nodes when it has no list.
SbomsMet(data) ==
    IF data.hasSboms /\ Len(data.sboms) > 0 THEN data.sboms
    ELSE KeysInOrder(SeqMap(LAMBDA n : n.sbom,
             SelectSeq(data.nodes, LAMBDA n : ~n.isNull /\ Truthy(n.sbom))))

\* The .then(data => ...) of fetchGraphData, which runs when a request is
\* answered: an empty graph shows the
\* error banner and leaves the graph alone, any other goes to updateData.
Received(data) ==
    /\ graphRequests' = graphRequests - 1
    /\ IF Len(data.nodes) = 0
       THEN /\ graphError' = TRUE
            /\ lastOp' = "noData"
            /\ UNCHANGED << nodes, links, originalNodes, originalLinks, sbomColors,
                            visibleSboms, highlightCommon, nodeElements, linkElements,
                            bound, attached, stats, warned, clusteredView,
                            nodeSizeBy, selectedNode, simulation, pinned, drag, expandButton, seenSboms >>
       ELSE /\ \E g \in { updateData(G, data) } : Becomes(g)
            /\ seenSboms' = KeysInOrder(seenSboms \o SbomsMet(data))
            /\ lastOp' = "updateData"
            /\ UNCHANGED graphError
    /\ UNCHANGED << checkboxes, fetches, lastCluster >>

\* The same with the server left out of the account.
Respond(data) == Received(data) /\ UNCHANGED uiVars

GraphResponse ==
    /\ graphRequests > 0
    /\ \E data \in SessionPayloads : Respond(data)

ClusterResponse ==
    /\ graphRequests > 0
    /\ \E data \in ClusterPayloads : Respond(data)

MalformedResponse ==
    /\ graphRequests > 0
    /\ \E data \in MalformedPayloads : Respond(data)

\* fetchGraphData up to the request: the banner is hidden.
FetchGraphData ==
    /\ graphRequests' = graphRequests + 1
    /\ fetches' = fetches + 1
    /\ graphError' = FALSE

\* updateSbomList: the list is rebuilt, every checkbox checked.
updateSbomList(loaded) == checkboxes' = [ id \in loaded |-> TRUE ]

\* The response of /sboms.
SbomListResponse ==
    /\ \E loaded \in SUBSET { S1, S2 } : updateSbomList(loaded)
    /\ lastOp' = "sbomList"
    /\ UNCHANGED << nodes, links, originalNodes, originalLinks, sbomColors,
                    visibleSboms, highlightCommon, nodeElements, linkElements,
                    bound, attached, stats, warned, clusteredView,
                    nodeSizeBy, selectedNode, simulation, pinned, drag, expandButton,
                    graphRequests, fetches, graphError, seenSboms, lastCluster, uiVars >>

\* A successful upload or deletion: the list is rebuilt and the graph is
\* fetched again.
SbomChange ==
    /\ fetches < MaxFetches
    /\ graphRequests < MaxInflight
    /\ \E loaded \in SUBSET { S1, S2 } : updateSbomList(loaded)
    /\ FetchGraphData
    /\ lastOp' = "fetch"
    /\ UNCHANGED << nodes, links, originalNodes, originalLinks, sbomColors,
                    visibleSboms, highlightCommon, nodeElements, linkElements,
                    bound, attached, stats, warned, clusteredView,
                    nodeSizeBy, selectedNode, simulation, pinned, drag, expandButton,
                    seenSboms, lastCluster, uiVars >>

\* The change handler of an SBOM's checkbox.
ToggleCheckbox ==
    \E id \in DOMAIN checkboxes :
        /\ checkboxes' = [ checkboxes EXCEPT ![id] = ~@ ]
        /\ \E g \in { toggleSbomVisibility(G, id, ~checkboxes[id]) } : Becomes(g)
        /\ lastOp' = "toggle"
        /\ UNCHANGED << graphRequests, fetches, graphError, seenSboms, lastCluster, uiVars >>

setHighlightCommon(g, highlight) == update([ g EXCEPT !.highlightCommon = highlight ])

SetHighlightCommon ==
    /\ \E g \in { setHighlightCommon(G, ~highlightCommon) } : Becomes(g)
    /\ lastOp' = "update"
    /\ UNCHANGED << checkboxes, graphRequests, fetches, graphError, seenSboms, lastCluster, uiVars >>

\* The resize handler of the window.
Resize ==
    /\ \E g \in { update(G) } : Becomes(g)
    /\ lastOp' = "update"
    /\ UNCHANGED << checkboxes, graphRequests, fetches, graphError, seenSboms, lastCluster, uiVars >>

\* A double click on the element of a cluster node.
ExpandCluster ==
    /\ attached
    /\ \E i \in DOMAIN nodeElements :
        /\ nodeElements[i].d.isCluster
        /\ nodeElements[i].display
        /\ \E g \in { expandCluster(G, nodeElements[i].d) } : Becomes(g)
        /\ lastCluster' = nodeElements[i].d
    /\ lastOp' = "expandCluster"
    /\ UNCHANGED << checkboxes, graphRequests, fetches, graphError, seenSboms, uiVars >>

Next ==
    \/ GraphResponse
    \/ SbomListResponse
    \/ SbomChange
    \/ ToggleCheckbox
    \/ SetHighlightCommon
    \/ Resize

Spec == Init /\ [][Next]_vars

NextCluster ==
    \/ ClusterResponse
    \/ Resize
    \/ ExpandCluster

SpecCluster == Init /\ [][NextCluster]_vars

NextMalformed ==
    \/ MalformedResponse
    \/ Resize

SpecMalformed == Init /\ [][NextMalformed]_vars

\* ------------------------------------------------------------------------
\* Properties
\* ------------------------------------------------------------------------

\* ------------------------------------------------------------------------
\* The view controls
\* ------------------------------------------------------------------------

\* A component of type 'software' with a file size.
NodeS == [ Node(<<"s">>, S1, SOFTWARE, FALSE, << >>) EXCEPT !.size = 20000 ]

\* A payload large enough to be clustered in which the components of the
\* second SBOM, all of type 'software', stay unclustered.
ViewClusterPayload ==
    Payload(<< NodeA >> \o ShapeNodes(CHOOSE sh \in Shapes : sh.n1 > 0 /\ sh.n2 > 0),
            << StrLink(<<"p1">>, <<"p3">>) >>, TRUE, ClusterSboms)

\* A component that only the second SBOM contains.
NodeD == Node(<<"d">>, S2, LIB, FALSE, << >>)

ViewPayloads ==
    { Payload(<< NodeA, NodeS, NodeC >>,
              << StrLink(<<"a">>, <<"s">>), StrLink(<<"a">>, <<"c">>) >>,
              TRUE, << S1, S2 >>),
      Payload(<< NodeA, NodeS, NodeD >>,
              << StrLink(<<"a">>, <<"s">>), StrLink(<<"a">>, <<"d">>) >>,
              TRUE, << S1, S2 >>),
      Payload(<< NodeA, NodeS >>, << StrLink(<<"a">>, <<"s">>) >>, TRUE, << S1 >>) }

ViewResponse ==
    /\ graphRequests > 0
    /\ \E data \in ViewPayloads : Respond(data)

\* A successful upload: the list shows the two SBOMs, the graph is fetched.
ViewChange ==
    /\ fetches < MaxFetches
    /\ graphRequests < MaxInflight
    /\ updateSbomList({ S1, S2 })
    /\ FetchGraphData
    /\ lastOp' = "fetch"
    /\ UNCHANGED << nodes, links, originalNodes, originalLinks, sbomColors,
                    visibleSboms, highlightCommon, nodeElements, linkElements,
                    bound, attached, stats, warned, clusteredView,
                    nodeSizeBy, selectedNode, simulation, pinned, drag, expandButton, seenSboms, lastCluster, uiVars >>

setNodeSizeBy(g, method) == update([ g EXCEPT !.nodeSizeBy = method ])

\* The change handler of the size selector.
SetNodeSizeBy ==
    /\ \E method \in SizeModes :
           \E g \in { setNodeSizeBy(G, method) } : Becomes(g)
    /\ lastOp' = "update"
    /\ UNCHANGED << checkboxes, graphRequests, fetches, graphError, seenSboms,
                    lastCluster, uiVars >>

\* A click on a node element that is in the document and displayed.
SelectNode ==
    /\ attached
    /\ \E i \in DOMAIN nodeElements :
           /\ nodeElements[i].display
           /\ \E g \in { selectNode(G, nodeElements[i].d) } : Becomes(g)
    /\ lastOp' = "select"
    /\ UNCHANGED << checkboxes, graphRequests, fetches, graphError, seenSboms,
                    lastCluster, uiVars >>

\* The change handler of the 'show software' checkbox.
FilterByType ==
    /\ \E showSoftware \in BOOLEAN :
           /\ \E g \in { filterByType(G, showSoftware) } : Becomes(g)
           /\ softwareFilter' = IF showSoftware THEN "shown" ELSE "hidden"
    /\ lastOp' = "filterByType"
    /\ UNCHANGED << checkboxes, graphRequests, fetches, graphError, seenSboms,
                    lastCluster, formatted, serverVars >>

NextView ==
    \/ ViewResponse
    \/ ViewChange
    \/ ToggleCheckbox
    \/ SetHighlightCommon
    \/ Resize
    \/ SetNodeSizeBy
    \/ SelectNode
    \/ FilterByType

SpecView == Init /\ [][NextView]_vars

\* ------------------------------------------------------------------------
\* Dragging
\* ------------------------------------------------------------------------

\* The pointers that can drag at the same time.
MaxGestures == 2

\* The node elements, counted from the first, that the pointers reach.
MaxReach == 3

\* _dragstarted as the start of gesture k on the element whose datum is d:
\* event.active counts the gestures of the element's behaviour that were in
\* progress before.  d.fx = d.x pins the node when it has coordinates.
dragstarted(g, k, d) ==
    [ g EXCEPT
        !.simulation = IF Active(g.drag.gestures, g.drag.behaviour) = 0
                       THEN [ @ EXCEPT !.alphaTarget = AlphaDrag, !.running = TRUE ]
                       ELSE @,
        !.pinned = IF g.simulation.current THEN @ \cup { d.id } ELSE @ \ { d.id },
        !.drag = [ @ EXCEPT !.gestures =
                     [ j \in DOMAIN g.drag.gestures \cup { k } |->
                         IF j = k
                         THEN [ id |-> d.id, current |-> TRUE,
                                behaviour |-> g.drag.behaviour ]
                         ELSE g.drag.gestures[j] ] ] ]

\* _dragged: d.fx = event.x, on the object the gesture began on.
dragged(g, k) ==
    [ g EXCEPT !.pinned = IF g.drag.gestures[k].current
                          THEN @ \cup { g.drag.gestures[k].id } ELSE @ ]

\* The gestures in progress once gesture k is over.
Others(gestures, k) == [ j \in DOMAIN gestures \ { k } |-> gestures[j] ]

\* _dragended: event.active counts the gestures of the same behaviour that
\* are left.
dragended(g, k) ==
    [ g EXCEPT
        !.simulation = IF Active(Others(g.drag.gestures, k),
                                 g.drag.gestures[k].behaviour) = 0
                       THEN [ @ EXCEPT !.alphaTarget = 0 ] ELSE @,
        !.pinned = IF g.drag.gestures[k].current
                   THEN @ \ { g.drag.gestures[k].id } ELSE @,
        !.drag = [ @ EXCEPT !.gestures = Others(g.drag.gestures, k) ] ]

\* A small graph, and one large enough to be drawn clustered.
DragPayloads ==
    { Payload(<< NodeA, NodeS >>, << StrLink(<<"a">>, <<"s">>) >>, TRUE, << S1 >>),
      ViewClusterPayload }

DragResponse ==
    /\ graphRequests > 0
    /\ \E data \in DragPayloads : Respond(data)

\* A pointer goes down on a displayed node element that no other pointer
\* holds.
DragStart ==
    /\ attached
    /\ \E k \in (1..MaxGestures) \ DOMAIN drag.gestures :
       \E i \in DOMAIN nodeElements :
           /\ i <= MaxReach
           /\ nodeElements[i].display
           /\ \A j \in DOMAIN drag.gestures :
                  drag.gestures[j].id # nodeElements[i].d.id
           /\ \E g \in { dragstarted(G, k, nodeElements[i].d) } : Becomes(g)
    /\ lastOp' = "dragstart"
    /\ UNCHANGED << checkboxes, graphRequests, fetches, graphError, seenSboms,
                    lastCluster, uiVars >>

\* The pointer of a gesture moves.
Dragged ==
    /\ \E k \in DOMAIN drag.gestures :
           \E g \in { dragged(G, k) } : Becomes(g)
    /\ lastOp' = "drag"
    /\ UNCHANGED << checkboxes, graphRequests, fetches, graphError, seenSboms,
                    lastCluster, uiVars >>

\* The pointer of a gesture goes up.
DragEnd ==
    /\ \E k \in DOMAIN drag.gestures :
           \E g \in { dragended(G, k) } : Becomes(g)
    /\ lastOp' = "dragend"
    /\ UNCHANGED << checkboxes, graphRequests, fetches, graphError, seenSboms,
                    lastCluster, uiVars >>

\* The timer of the simulation fires.
Tick ==
    /\ simulation.running
    /\ \E g \in { [ G EXCEPT !.simulation = Ticked(@) ] } : Becomes(g)
    /\ lastOp' = "tick"
    /\ UNCHANGED << checkboxes, graphRequests, fetches, graphError, seenSboms,
                    lastCluster, uiVars >>

NextDrag ==
    \/ DragResponse
    \/ DragStart
    \/ Dragged
    \/ DragEnd
    \/ Tick
    \/ SetHighlightCommon

\* The timer fires as long as the simulation runs.
SpecDrag == Init /\ [][NextDrag]_vars /\ WF_vars(Tick)

\* ------------------------------------------------------------------------
\* The details panel
\* ------------------------------------------------------------------------

\* The working nodes beyond which the button is not pressed again.
MaxWorkingNodes == 150

\* Clustered graphs without and with a link inside a cluster.
PanelPayloads ==
    { ViewClusterPayload,
      Payload(ShapeNodes(CHOOSE sh \in Shapes : sh.n1 > 0 /\ sh.n2 > 0),
              << StrLink(<<"p1">>, <<"p3">>), StrLink(<<"p1">>, <<"q1">>) >>,
              TRUE, ClusterSboms) }

PanelResponse ==
    /\ graphRequests > 0
    /\ \E data \in PanelPayloads : Respond(data)

\* A click on one of the first node elements.
SelectReached ==
    /\ attached
    /\ \E i \in DOMAIN nodeElements :
           /\ i <= MaxReach
           /\ nodeElements[i].display
           /\ \E g \in { selectNode(G, nodeElements[i].d) } : Becomes(g)
    /\ lastOp' = "select"
    /\ UNCHANGED << checkboxes, graphRequests, fetches, graphError, seenSboms,
                    lastCluster, uiVars >>

\* A click on the 'Expand Cluster' button of the details panel: the
\* listener calls _expandCluster with the node the panel was written for.
ExpandButton ==
    /\ ~expandButton.isNull
    /\ Len(nodes) <= MaxWorkingNodes
    /\ \E g \in { expandCluster(G, expandButton) } : Becomes(g)
    /\ lastCluster' = expandButton
    /\ lastOp' = "expandCluster"
    /\ UNCHANGED << checkboxes, graphRequests, fetches, graphError, seenSboms, uiVars >>

NextPanel ==
    \/ PanelResponse
    \/ SelectReached
    \/ ExpandButton
    \/ ExpandCluster

SpecPanel == Init /\ [][NextPanel]_vars

\* ------------------------------------------------------------------------
\* The page's requests
\* ------------------------------------------------------------------------

\* The requests that can be in flight at once.
MaxPending == 3

\* The /graph requests of a session.
MaxPageFetches == 4

\* What /graph returns while the server holds the given SBOMs.
PayloadOf(holding) ==
    Payload(Flatten(SeqMap(LAMBDA sb : NodesOfSbom(sb, Len(holding) > 1), holding)),
            IF Len(holding) > 1 THEN << StrLink(<<"a">>, <<"c">>) >> ELSE << >>,
            TRUE, holding)

\* The sequence without its entry i.
Without(seq, i) == SubSeq(seq, 1, i - 1) \o SubSeq(seq, i + 1, Len(seq))

\* The part of fetchGraphData that every caller runs: setLoading(true),
\* the banner hidden, the request sent.  The server answers with what it
\* holds then.
FetchAfter(rest, holding) ==
    /\ FetchGraphData
    /\ pending' = Append(rest, Request("graph", Absent, holding))
    /\ latest' = holding

\* The graph and the history of it are left alone.
GraphStays ==
    UNCHANGED << nodes, links, originalNodes, originalLinks, sbomColors,
                 visibleSboms, highlightCommon, nodeElements, linkElements,
                 bound, attached, stats, warned, clusteredView,
                 nodeSizeBy, selectedNode, simulation, pinned, drag, expandButton,
                 seenSboms, lastCluster, viewVars >>

\* The upload form is submitted, which the disabled button prevents: the
\* server takes the SBOM in.
Upload ==
    /\ ~loading
    /\ Len(pending) < MaxPending
    /\ \E id \in { S1, S2 } \ Range(held) :
           /\ held' = Append(held, id)
           /\ pending' = Append(pending, Request("upload", id, Append(held, id)))
    /\ loading' = TRUE
    /\ lastOp' = "upload"
    /\ GraphStays
    /\ UNCHANGED << checkboxes, graphRequests, fetches, graphError, latest >>

\* deleteSbom, from the button of a list item: the server drops the SBOM
\* when it holds it.
DeleteSbom ==
    /\ Len(pending) < MaxPending
    /\ \E id \in DOMAIN checkboxes :
           /\ held' = SelectSeq(held, LAMBDA sb : sb # id)
           /\ pending' = Append(pending,
                  Request(IF id \in Range(held) THEN "delete" ELSE "failed", id, held'))
    /\ loading' = TRUE
    /\ lastOp' = "delete"
    /\ GraphStays
    /\ UNCHANGED << checkboxes, graphRequests, fetches, graphError, latest >>

\* The answer to an upload or a deletion arrives: the list is rebuilt, the
\* graph is fetched, and then finally() runs setLoading(false).
ChangeAnswered ==
    /\ fetches < MaxPageFetches
    /\ \E i \in DOMAIN pending :
           /\ pending[i].kind \in { "upload", "delete" }
           /\ updateSbomList(IF pending[i].kind = "upload"
                             THEN DOMAIN checkboxes \cup { pending[i].sbom }
                             ELSE DOMAIN checkboxes \ { pending[i].sbom })
           /\ FetchAfter(Without(pending, i), held)
    /\ loading' = FALSE
    /\ lastOp' = "fetch"
    /\ GraphStays
    /\ UNCHANGED held

\* The error answer to a deletion arrives.
DeleteFailed ==
    /\ \E i \in DOMAIN pending :
           /\ pending[i].kind = "failed"
           /\ pending' = Without(pending, i)
    /\ loading' = FALSE
    /\ lastOp' = "deleteFailed"
    /\ GraphStays
    /\ UNCHANGED << checkboxes, graphRequests, fetches, graphError, held, latest >>

\* The answer of /sboms arrives.
SbomsAnswered ==
    /\ \E i \in DOMAIN pending :
           /\ pending[i].kind = "sboms"
           /\ updateSbomList(Range(pending[i].held))
           /\ pending' = Without(pending, i)
    /\ loading' = FALSE
    /\ lastOp' = "sbomList"
    /\ GraphStays
    /\ UNCHANGED << graphRequests, fetches, graphError, held, latest >>

\* The answer of /graph arrives.
GraphAnswered ==
    /\ \E i \in DOMAIN pending :
           /\ pending[i].kind = "graph"
           /\ Received(PayloadOf(pending[i].held))
           /\ pending' = Without(pending, i)
    /\ loading' = FALSE
    /\ UNCHANGED << viewVars, held, latest >>

NextPage ==
    \/ Upload
    \/ DeleteSbom
    \/ ChangeAnswered
    \/ DeleteFailed
    \/ SbomsAnswered
    \/ GraphAnswered
    \/ ToggleCheckbox

SpecPage == Init /\ [][NextPage]_vars

\* ------------------------------------------------------------------------
\* Formatting sizes
\* ------------------------------------------------------------------------

\* Digits for the byte counts tried.
MaxDigits == 5

SomeDigits == { 0, 1, 2, 512, 1000, 1023 }

\* Byte counts of at most MaxDigits digits of which only the two highest
\* may differ from 0.
ByteCounts ==
    { [ i \in 1..n |-> IF i = n THEN hi ELSE IF i = n - 1 THEN lo ELSE 0 ] :
        n \in 0..MaxDigits, hi \in SomeDigits, lo \in SomeDigits }

\* The details panel or a tooltip shows the size of a node or the summed
\* size of a cluster.
ShowSize ==
    /\ \E bytes \in ByteCounts :
           formatted' = [ bytes |-> bytes, text |-> formatFileSize(bytes) ]
    /\ lastOp' = "formatFileSize"
    /\ UNCHANGED << nodes, links, originalNodes, originalLinks, sbomColors,
                    visibleSboms, highlightCommon, nodeElements, linkElements,
                    bound, attached, stats, warned, clusteredView,
                    nodeSizeBy, selectedNode, simulation, pinned, drag, expandButton, checkboxes, graphRequests, fetches,
                    graphError, seenSboms, lastCluster, softwareFilter, serverVars >>

NextFormat == ShowSize

SpecFormat == Init /\ [][NextFormat]_vars

\* C13: for every byte count _formatFileSize gives a text whose unit is one
\* of Bytes, KB, MB, GB, namely the largest power of 1024 that does not
\* exceed the count; 0 gives '0 Bytes' and 1536 gives '1.5 KB'.
C13_UnitIsLargestPower ==
    lastOp = "formatFileSize" =>
        /\ \E u \in DOMAIN sizes :
               /\ formatted.text.unit = sizes[u]
               /\ \/ Digits(formatted.bytes) = u
                  \/ Digits(formatted.bytes) = 0 /\ u = 1
        /\ Digits(formatted.bytes) = 0 => formatted.text = Text(0, "Bytes")
        /\ formatted.bytes = << 512, 1 >> => formatted.text = Text(150, "KB")

\* Both endpoints of every working link name a working node.
LinksResolve ==
    \A i \in DOMAIN links :
        /\ EndId(links[i].source) \in NodeIds(nodes)
        /\ EndId(links[i].target) \in NodeIds(nodes)

C2_NoDuplicateIds ==
    lastOp = "updateData" =>
        /\ Cardinality(NodeIds(nodes)) = Len(nodes)
        /\ \A i \in DOMAIN nodes :
               nodes[i].isCluster \/
               nodes[i] = originalNodes[FindFirst(originalNodes,
                                            LAMBDA n : n.id = nodes[i].id)]

\* The SBOM identifiers of the original nodes.
OriginalSboms ==
    { originalNodes[i].sbom : i \in DOMAIN originalNodes } \ { Absent }

NodesOf(ns, sbom) == SelectSeq(ns, LAMBDA n : n.sbom = sbom)

\* Importance as the specification words it, read off the payload: the
\* identifier occurs under two SBOMs, or ends a link whose two ends belong
\* to different SBOMs, or ends more than five links.
SharedIds ==
    { originalNodes[i].id : i \in { j \in DOMAIN originalNodes :
        \E k \in DOMAIN originalNodes :
            /\ originalNodes[k].id = originalNodes[j].id
            /\ originalNodes[k].sbom # originalNodes[j].sbom
            /\ Truthy(originalNodes[k].sbom)
            /\ Truthy(originalNodes[j].sbom) } }

CrossLinkedIds ==
    UNION { { EndId(originalLinks[i].source), EndId(originalLinks[i].target) } :
        i \in { j \in DOMAIN originalLinks :
            /\ EndId(originalLinks[j].source) \in NodeIds(originalNodes)
            /\ EndId(originalLinks[j].target) \in NodeIds(originalNodes)
            /\ FirstNodeOf(originalNodes, EndId(originalLinks[j].source)).sbom
               # FirstNodeOf(originalNodes, EndId(originalLinks[j].target)).sbom } }

HighDegreeIds ==
    { id \in NodeIds(originalNodes) :
        Cardinality({ i \in DOMAIN originalLinks :
            id \in { EndId(originalLinks[i].source),
                     EndId(originalLinks[i].target) } }) > 5 }

ImportantIds == SharedIds \cup CrossLinkedIds \cup HighDegreeIds

\* The clustering of one SBOM is as C3 says: its important nodes are kept,
\* the others are the components of the cluster of their type.
ClusteredAsStated(important, sbom) ==
    With(NodesOf(originalNodes, sbom), LAMBDA all :
    With(SelectSeq(all, LAMBDA n : n.id \notin important), LAMBDA others :
    With(SelectSeq(NodesOf(nodes, sbom), LAMBDA n : n.isCluster), LAMBDA clusters :
        /\ SelectSeq(NodesOf(nodes, sbom), LAMBDA n : ~n.isCluster)
           = SelectSeq(all, LAMBDA n : n.id \in important)
        /\ \A i \in DOMAIN others :
               Cardinality({ k \in DOMAIN clusters :
                   clusters[k].clusterType = TypeOf(others[i]) }) = 1
        /\ \A k \in DOMAIN clusters :
               clusters[k].components =
                   SeqMap(LAMBDA n : n.id,
                       SelectSeq(others, LAMBDA n : TypeOf(n) = clusters[k].clusterType))
        /\ \A k \in DOMAIN clusters : clusters[k].components # << >> )))

\* C3: after clustering, for every SBOM with more than clusterThreshold
\* nodes the individually kept nodes are exactly its important nodes
\* (shared identifier, end of a cross-SBOM link, more than 5 links), and
\* every other node is a component of exactly one cluster node, the one of
\* its type ('unknown' without a type); none is lost or listed twice.
C3_ClusterPartition ==
    (lastOp = "updateData" /\ clusteredView) =>
        With(ImportantIds, LAMBDA important :
            \A sbom \in OriginalSboms :
                Len(NodesOf(originalNodes, sbom)) > clusterThreshold
                    => ClusteredAsStated(important, sbom))

\* C3 witness: a clustered SBOM of which a node is kept and the others
\* are in two clusters, one of them for the nodes without a type.
C3_Witness ==
    /\ lastOp = "updateData"
    /\ clusteredView
    /\ Len(NodesOf(originalNodes, S1)) > clusterThreshold
    /\ \E i \in DOMAIN nodes : nodes[i].sbom = S1 /\ ~nodes[i].isCluster
    /\ \E i \in DOMAIN nodes : nodes[i].sbom = S1 /\ nodes[i].clusterType = UNKNOWN
    /\ \E i \in DOMAIN nodes : nodes[i].sbom = S1 /\ nodes[i].clusterType = LIB

\* The number of entries of seq equal to x.
Occ(seq, x) == Cardinality({ i \in DOMAIN seq : seq[i] = x })

\* C4: _expandCluster(c) takes c out of the working nodes and adds the
\* original nodes whose identifiers are components of c, each once; every
\* other working node, other cluster nodes included, stays as it was.
C4_ExpandRestores ==
    [][ lastOp' = "expandCluster" =>
          \A x \in Range(nodes) \cup Range(nodes') :
              Occ(nodes', x) =
                  (IF x = lastCluster' THEN 0 ELSE Occ(nodes, x))
                  + Occ(SelectSeq(originalNodes, LAMBDA n :
                            n.id \in Range(lastCluster'.components)), x) ]_vars

\* The display rule as C5 words it.
NodeShownAsStated(visible, d) ==
    \/ visible = {}
    \/ d.sbom \in visible
    \/ \E k \in DOMAIN d.shared_in : d.shared_in[k] \in visible

\* C5: once the visibility filter has run, with an empty visibility set
\* every node and link is displayed whatever its SBOM or shared_in, and
\* with a non-empty set a node is displayed exactly when its own SBOM or
\* an entry of its shared_in is in the set.
C5_VisibilityFilter ==
    (attached /\ lastOp \in { "updateData", "update", "toggle" }) =>
        /\ \A i \in DOMAIN nodeElements :
               nodeElements[i].display
                   = NodeShownAsStated(visibleSboms, nodeElements[i].d)
        /\ visibleSboms = {} =>
               \A i \in DOMAIN linkElements : linkElements[i].display

\* The N-th SBOM identifier met (from 0) has colour N mod SchemeSize.
ColoursFollowOrder ==
    \A k \in DOMAIN seenSboms :
        seenSboms[k] \in DOMAIN sbomColors =>
            sbomColors[seenSboms[k]] = schemeCategory10[((k - 1) % SchemeSize) + 1]

\* C6: over the updateData calls of a session the N-th distinct SBOM
\* identifier met, counting from 0, has palette colour N mod 10, and an
\* identifier that has a colour keeps it.
C6_ColourByOrder ==
    [][ /\ ColoursFollowOrder'
        /\ \A id \in DOMAIN sbomColors :
               id \in DOMAIN sbomColors' /\ sbomColors'[id] = sbomColors[id] ]_vars

\* C7: updateData clusters an SBOM exactly when the SBOM itself has more
\* than clusterThreshold nodes: such an SBOM keeps its important nodes only
\* and has its other nodes in clusters that count them (50 plain 'library'
\* nodes give one cluster of 50), an SBOM of at most clusterThreshold nodes
\* has all its nodes unclustered.
C7_ClusterOverThreshold ==
    lastOp = "updateData" =>
        With(ImportantIds, LAMBDA important :
            \A sbom \in OriginalSboms :
                IF Len(NodesOf(originalNodes, sbom)) > clusterThreshold
                THEN /\ ClusteredAsStated(important, sbom)
                     /\ \A i \in DOMAIN nodes :
                            (nodes[i].isCluster /\ nodes[i].sbom = sbom) =>
                                nodes[i].componentCount = Len(nodes[i].components)
                ELSE NodesOf(nodes, sbom) = NodesOf(originalNodes, sbom))

\* C8: when _createClusteredGraph fails, updateData leaves the working
\* nodes and links equal to the nodes and links of the payload.
C8_FallbackToOriginal ==
    (lastOp = "updateData" /\ clusteredView) =>
        /\ nodes = originalNodes
        /\ links = originalLinks

\* What identifies a raw link: its endpoints' identifiers, SBOM and type.
LinkSig(l) == << EndId(l.source), EndId(l.target), l.sbom, l.type >>

\* Both endpoints of a raw link are working nodes.
EndsSurvive(l) ==
    /\ EndId(l.source) \in NodeIds(nodes)
    /\ EndId(l.target) \in NodeIds(nodes)

\* C9: updateData keeps a raw link exactly when both its endpoints are in
\* the working node set, and reports as many discarded links as there are
\* raw links that are not.
C9_KeepsResolvedLinks ==
    lastOp = "updateData" =>
        With(SelectSeq(originalLinks, EndsSurvive), LAMBDA kept :
            /\ SeqMap(LinkSig, links) = SeqMap(LinkSig, kept)
            /\ warned = Len(originalLinks) - Len(kept))

\* C10: after the first updateData of a graph every SBOM of a working node
\* has a colour, with or without an sboms list in the payload; the nodes
\* a, b of one SBOM and c of another, shared by both, with the links a-c
\* and b-c give 3 nodes, 2 links, 2 colours and c in the shared colour.
C10_EverySbomColoured ==
    (lastOp = "updateData" /\ fetches = 1) =>
        /\ \A i \in DOMAIN nodes :
               Truthy(nodes[i].sbom) => nodes[i].sbom \in DOMAIN sbomColors
        /\ (originalNodes = << NodeA, NodeB, NodeC >> /\ Len(originalLinks) = 2
                /\ highlightCommon) =>
               /\ Len(nodes) = 3
               /\ Len(links) = 2
               /\ Cardinality(DOMAIN sbomColors) = 2
               /\ \E i \in DOMAIN nodeElements :
                      /\ nodeElements[i].d.id = NodeC.id
                      /\ nodeElements[i].fill = SharedHighlight

\* C11: updateData puts an SBOM identifier into the visibility set the
\* first time the session sees it and otherwise leaves the set alone: a
\* newly seen SBOM is in the set afterwards, a member stays a member, and
\* an SBOM seen before and taken out of the set is still out of it.
C11_VisibleOnFirstSight ==
    [][ lastOp' = "updateData" =>
          /\ \A k \in DOMAIN seenSboms' :
                 seenSboms'[k] \notin Range(seenSboms) => seenSboms'[k] \in visibleSboms'
          /\ visibleSboms \subseteq visibleSboms'
          /\ \A k \in DOMAIN seenSboms :
                 seenSboms[k] \notin visibleSboms => seenSboms[k] \notin visibleSboms' ]_vars

\* C12: while the sizing mode is 'fixed', getNodeSize gives every node that
\* is not a cluster the base radius, whatever its links, size or shared_in,
\* and the circles drawn have that radius.
C12_FixedSizeIsBase ==
    nodeSizeBy = "fixed" =>
        /\ \A i \in DOMAIN nodes :
               nodes[i].isCluster \/ getNodeSize(G, nodes[i]) = baseSize
        /\ attached =>
               \A i \in DOMAIN nodeElements :
                   nodeElements[i].d.isCluster \/ nodeElements[i].r = baseSize

\* C12 witness: fixed mode is back after another mode, with rendered nodes
\* that have links, a file size and a shared_in of two SBOMs.
C12_Witness ==
    /\ nodeSizeBy = "fixed"
    /\ attached
    /\ lastOp = "update"
    /\ Len(linkElements) = 2
    /\ \E i \in DOMAIN nodeElements : nodeElements[i].d.size > 0
    /\ \E i \in DOMAIN nodeElements : Len(nodeElements[i].d.shared_in) > 1
    /\ \A i \in DOMAIN nodeElements : nodeElements[i].r = baseSize

\* The identifiers of the working nodes of type 'software'.
SoftwareIds == { nodes[i].id : i \in { j \in DOMAIN nodes : nodes[j].type = SOFTWARE } }

\* C14: while the last filterByType call is filterByType(false), whatever
\* ran since (a visibility toggle, a change of sizing mode or highlight, a
\* resize, updateData), no node of type 'software' is displayed and no
\* link that ends at such a node is displayed.
C14_TypeFilterHolds ==
    (softwareFilter = "hidden" /\ attached) =>
        /\ \A i \in DOMAIN nodeElements :
               nodeElements[i].d.type = SOFTWARE => ~nodeElements[i].display
        /\ \A i \in DOMAIN linkElements :
               (\/ EndId(linkElements[i].d.source) \in SoftwareIds
                \/ EndId(linkElements[i].d.target) \in SoftwareIds)
                   => ~linkElements[i].display

\* C15: while a node is selected every rendered link that touches it has
\* opacity 0.8 and every other rendered link 0.2, also after a re-render;
\* without a selection every link has opacity 0.6.
C15_LinkOpacityFollowsSelection ==
    attached =>
        \A i \in DOMAIN linkElements :
            linkElements[i].opacity =
                IF selectedNode.d.isNull THEN 6
                ELSE IF selectedNode.d.id \in { EndId(linkElements[i].d.source),
                                                EndId(linkElements[i].d.target) }
                     THEN 8 ELSE 2

\* The element with its display attribute left out of the comparison.
ButDisplay(e) == [ e EXCEPT !.display = TRUE ]

\* C16: toggleSbomVisibility(id, visible) changes only the membership of id
\* in the visibility set and the display attribute of the elements that
\* exist: the working nodes and links, the colour map, the selected node,
\* the sizing mode and the highlight flag stay as they were, no element is
\* rebuilt, the simulation is not restarted, and id is in the set afterwards
\* exactly when visible is true.
C16_ToggleOnlyFilters ==
    [][ lastOp' = "toggle" =>
          /\ UNCHANGED << nodes, links, originalNodes, originalLinks, sbomColors,
                          selectedNode, nodeSizeBy, highlightCommon, simulation,
                          bound, attached >>
          /\ DOMAIN nodeElements' = DOMAIN nodeElements
          /\ DOMAIN linkElements' = DOMAIN linkElements
          /\ \A i \in DOMAIN nodeElements :
                 ButDisplay(nodeElements'[i]) = ButDisplay(nodeElements[i])
          /\ \A i \in DOMAIN linkElements :
                 ButDisplay(linkElements'[i]) = ButDisplay(linkElements[i])
          /\ \E id \in DOMAIN checkboxes :
                 /\ checkboxes'[id] # checkboxes[id]
                 /\ (id \in visibleSboms') <=> checkboxes'[id]
                 /\ visibleSboms' \ {id} = visibleSboms \ {id} ]_vars

\* A toggle has hidden an element of a graph that has a selected node.
C16_Witness ==
    /\ lastOp = "toggle"
    /\ selectedNode.current
    /\ \E i \in DOMAIN nodeElements :
           ~nodeElements[i].display /\ nodeElements[i].d.sbom \notin visibleSboms
    /\ \E i \in DOMAIN linkElements : linkElements[i].opacity # CssLinkOpacity

\* The identifiers of the nodes that a gesture in progress drags.
DraggedIds == { drag.gestures[k].id : k \in DOMAIN drag.gestures }

\* C17: a node is pinned from the start of a drag on it until that drag
\* ends and is unpinned after every drag end; alphaTarget is raised to 0.3
\* when the first active drag starts and is back at 0 once the last one has
\* ended, so that the simulation becomes idle after all drags are released.
C17_DragPinsAndReheats ==
    /\ [](DraggedIds \subseteq pinned)
    /\ [][lastOp' = "dragend" => pinned' = pinned \ (DraggedIds \ DraggedIds')]_vars
    /\ [](simulation.alphaTarget = IF DraggedIds = {} THEN 0 ELSE AlphaDrag)
    /\ (DraggedIds = {} /\ lastOp = "dragend")
           ~> (~simulation.running \/ lastOp \notin { "dragend", "tick" })

\* C18: after every updateData the reported node and link counts are the
\* sizes of the node and link sets that survived validation, and the
\* reported SBOM count is the number of distinct SBOM identifiers among the
\* nodes of that payload.  (Stated for the graphs drawn unclustered, where
\* the working sets are the validated sets.)
C18_StatsFollowPayload ==
    lastOp = "updateData" /\ ~clusteredView =>
        /\ stats.nodes = Len(nodes)
        /\ stats.links = Len(links)
        /\ stats.sboms = Cardinality(OriginalSboms)

\* The identifiers of the working nodes that are drawn individually.
KeptIds == { nodes[i].id : i \in { j \in DOMAIN nodes : ~nodes[j].isCluster } }

\* C19: after updateData on a payload that triggers clustering, every
\* original link whose two endpoints are both individually kept nodes is in
\* the working link set with its source, target, SBOM and type unchanged.
C19_KeptLinksPassThrough ==
    lastOp = "updateData" /\ clusteredView =>
        \A i \in DOMAIN originalLinks :
            ( /\ ~originalLinks[i].isNull
              /\ EndId(originalLinks[i].source) \in KeptIds
              /\ EndId(originalLinks[i].target) \in KeptIds )
            => \E j \in DOMAIN links : LinkSig(links[j]) = LinkSig(originalLinks[i])

\* The working links from s to t of the given type.
LinksBetween(s, t, type) ==
    { j \in DOMAIN links :
        /\ EndId(links[j].source) = s
        /\ EndId(links[j].target) = t
        /\ links[j].type = type }

\* The original node with identifier id has the SBOM of the cluster c.
InSbomOf(c, id) ==
    \E i \in DOMAIN originalNodes :
        /\ ~originalNodes[i].isNull
        /\ originalNodes[i].id = id
        /\ originalNodes[i].sbom = c.sbom

\* C20: after clustering, every original link between a clustered node m
\* and a kept important node v of the same SBOM has a working link between
\* the cluster of m and v in the same direction, 'cluster-to-node' when m is
\* the source and 'node-to-cluster' when m is the target; a link between two
\* members of one cluster is represented by no link.
C20_ClusterLinksStandIn ==
    lastOp = "updateData" /\ clusteredView =>
        \A i \in DOMAIN originalLinks : \A k \in DOMAIN nodes :
            (~originalLinks[i].isNull /\ nodes[k].isCluster) =>
                With(EndId(originalLinks[i].source), LAMBDA s :
                With(EndId(originalLinks[i].target), LAMBDA t :
                With(Range(nodes[k].components), LAMBDA members :
                    /\ (s \in members /\ t \in KeptIds /\ InSbomOf(nodes[k], t))
                       => LinksBetween(nodes[k].id, t, <<"cluster", "to", "node">>) # {}
                    /\ (t \in members /\ s \in KeptIds /\ InSbomOf(nodes[k], s))
                       => LinksBetween(s, nodes[k].id, <<"node", "to", "cluster">>) # {}
                    /\ (s \in members /\ t \in members)
                       => /\ \A j \in DOMAIN links :
                                 LinkSig(links[j]) # LinkSig(originalLinks[i])
                          /\ \A j \in DOMAIN links :
                                 ~(EndId(links[j].source) = nodes[k].id
                                   /\ EndId(links[j].target) = nodes[k].id))))

\* The links that _createClusterLinks gave the clustering of the payload.
ProducedLinks == ClusteredGraph(originalNodes, originalLinks).links

\* The cluster nodes of that clustering.
ProducedClusters ==
    SelectSeq(ClusteredGraph(originalNodes, originalLinks).nodes, LAMBDA n : n.isCluster)

\* The link l joins the cluster c and the node n, tagged with their SBOMs.
JoinsTagged(l, c, n) ==
    \/ /\ EndId(l.source) = c.id /\ EndId(l.target) = n.id
       /\ l.sourceSbom = c.sbom /\ l.targetSbom = n.sbom
    \/ /\ EndId(l.source) = n.id /\ EndId(l.target) = c.id
       /\ l.sourceSbom = n.sbom /\ l.targetSbom = c.sbom

\* C21: every link of type 'cross-sbom' that _createClusterLinks produces
\* joins a cluster to a node whose SBOM is not the SBOM of the cluster, and
\* its sourceSbom and targetSbom are the SBOMs of its source and its target,
\* also for SBOM identifiers that contain '-'.
C21_CrossSbomLinksTagged ==
    lastOp = "updateData" /\ clusteredView =>
        \A i \in DOMAIN ProducedLinks :
            ProducedLinks[i].type = <<"cross", "sbom">> =>
                \E k \in DOMAIN ProducedClusters : \E j \in DOMAIN originalNodes :
                    /\ ~originalNodes[j].isNull
                    /\ originalNodes[j].sbom # ProducedClusters[k].sbom
                    /\ JoinsTagged(ProducedLinks[i], ProducedClusters[k], originalNodes[j])

\* C22: expanding the same cluster node a second time leaves the working
\* nodes and links as they were after the first expansion, and no member
\* node is ever twice in the working node set.
C22_ExpandTwiceIsOnce ==
    /\ [](\A i, j \in DOMAIN nodes : nodes[i].id = nodes[j].id => i = j)
    /\ [][ ( /\ lastOp = "expandCluster" /\ lastOp' = "expandCluster"
             /\ lastCluster' = lastCluster )
           => nodes' = nodes /\ links' = links ]_vars

\* The node d belongs to the SBOM id and to no other.
OnlyOf(d, id) ==
    /\ ~d.isNull /\ ~d.isCluster
    /\ d.sbom = id
    /\ ~d.hasShared \/ d.shared_in = << id >>

\* C23: for every loaded SBOM the visibility checkbox is checked exactly
\* when the nodes that belong only to that SBOM are displayed; unchecking
\* the checkbox hides them, also on the first toggle of the session.
C23_CheckboxMatchesDisplay ==
    bound /\ attached =>
        \A id \in DOMAIN checkboxes : \A i \in DOMAIN nodeElements :
            OnlyOf(nodeElements[i].d, id) =>
                (nodeElements[i].display <=> checkboxes[id])

\* The kinds of the requests in flight.
PendingKinds == { pending[i].kind : i \in DOMAIN pending }

\* C24: when several /graph requests were in flight at once and all of them
\* have been answered, the graph shows the data returned for the request
\* issued last, whatever the order of the answers.
C24_LastRequestWins ==
    ("graph" \notin PendingKinds /\ latest # << >>) =>
        originalNodes = PayloadOf(latest).nodes

\* C25: the loading indicator is shown and the upload button disabled in
\* every state where a request (upload, delete, /sboms, /graph) is in
\* flight.
C25_LoadingWhilePending == pending # << >> => loading

\* C26: after a successful deletion and the re-fetch it starts, no working
\* node is of the deleted SBOM and the simulation holds the working nodes,
\* also when the re-fetched graph has no nodes.
C26_DeletedSbomGone ==
    (PendingKinds = {} /\ fetches > 1) =>
        /\ \A i \in DOMAIN nodes : nodes[i].sbom \in Range(held)
        /\ simulation.current

\* C27: the selected node is null or one of the node objects of the working
\* node set: once updateData or _expandCluster has replaced or removed the
\* selected node, the selection no longer refers to it.
C27_SelectionIsWorkingNode ==
    selectedNode # NoSelection =>
        /\ selectedNode.current
        /\ \E i \in DOMAIN nodes : nodes[i] = selectedNode.d

\* The payload's links with both endpoints among its nodes, as signatures.
PayloadLinkSigs ==
    SeqMap(LinkSig, SelectSeq(originalLinks, LAMBDA l :
        /\ EndId(l.source) \in NodeIds(originalNodes)
        /\ EndId(l.target) \in NodeIds(originalNodes)))

\* C28: once every cluster node of a clustered graph has been expanded, the
\* identifiers of the working nodes are exactly those of the payload's
\* nodes, those without an SBOM included, and the working links are exactly
\* the payload's links with both endpoints present, each once.
C28_ExpandAllGivesPayload ==
    ( /\ lastOp = "expandCluster" /\ clusteredView
      /\ \A i \in DOMAIN nodes : ~nodes[i].isCluster ) =>
        /\ NodeIds(nodes) = NodeIds(originalNodes)
        /\ \A sig \in Range(PayloadLinkSigs) \cup Range(SeqMap(LinkSig, links)) :
               Occ(SeqMap(LinkSig, links), sig) = Occ(PayloadLinkSigs, sig)

\* A node element for the node that the endpoint e names is hidden.
HiddenEnd(e) ==
    \E j \in DOMAIN nodeElements :
        nodeElements[j].d.id = EndId(e) /\ ~nodeElements[j].display

\* C29: whenever filterVisibleSboms or filterByType has been applied, no
\* displayed link has a hidden endpoint node; this covers the links whose
\* own SBOM is visible while an endpoint belongs to a hidden SBOM, and the
\* cluster links.
C29_ShownLinksHaveShownEnds ==
    lastOp \in { "toggle", "filterByType" } =>
        \A i \in DOMAIN linkElements :
            linkElements[i].display =>
                /\ ~HiddenEnd(linkElements[i].d.source)
                /\ ~HiddenEnd(linkElements[i].d.target)

\* C30: the cluster nodes that one clustering pass creates have pairwise
\* distinct identifiers, and no cluster node has the identifier of a
\* component of the working node set, whatever the SBOM identifiers and
\* type tags are, the ones with '-' included: two different (SBOM, type)
\* buckets never share a cluster identifier.
C30_ClusterIdsDistinct ==
    (lastOp = "updateData" /\ clusteredView) =>
        \A i, j \in DOMAIN nodes :
            (nodes[i].isCluster /\ i # j) => nodes[i].id # nodes[j].id

====
